---- MODULE Spec2Model ----
(***************************************************************************)
(* A model of backend/app.py: the holdings analyzer (/upload with its      *)
(* mapping reload) and the optimizer endpoint (/optimize).                 *)
(*                                                                         *)
(* Numbers.  The program computes in binary floating point.  The model     *)
(* computes the same expressions exactly: money amounts are integers and   *)
(* every quotient is a fraction <<n, d>> in lowest terms with d > 0, so    *)
(* that two quotients are equal exactly when the tuples are equal.         *)
(* Rounding error is therefore outside the model: "= 1" below stands for   *)
(* "1 up to floating-point rounding" in the program.                       *)
(***************************************************************************)
EXTENDS Integers, Sequences, FiniteSets

VARIABLES
    pc,              \* position of the modelled call or request
    holdings,        \* calculate_holdings_performance: argument holdings
    current_prices,  \* calculate_holdings_performance: argument current_prices
    sector_map,      \* calculate_holdings_performance: argument sector_map
    class_map,       \* calculate_holdings_performance: argument class_map
    analytics,       \* calculate_holdings_performance: the returned dict
    mapping_file,    \* the file at MAP_PATH
    heap,            \* the dict objects load_mapping_file has created
    _sector_map,     \* global _sector_map: a reference into heap
    _class_map,      \* global _class_map: a reference into heap
    versions,        \* history: the complete maps of every load begun so far
    reload_pc,       \* reload_mapping: position of the request's thread
    reader,          \* load_mapping_file: local reader
    row_i,           \* load_mapping_file: loop index i
    reloads,         \* number of reload requests so far
    upload_pc,       \* upload: position of the request's thread
    data,            \* get_current_prices: what yf.download returned
    sector_ref,      \* upload: local sector_map, a reference into heap
    class_ref,       \* upload: local class_map, a reference into heap
    response,        \* upload: the response returned
    payload,         \* optimize_endpoint: the request's JSON
    today,           \* optimize_endpoint: local today, as <<year, month, day>>
    nifty_csv,       \* whether the file at NIFTY_CSV exists
    tickers,         \* optimize_endpoint: local tickers
    recent_prices,   \* optimize_endpoint: the frame of the 6-month download
    six_month_returns, \* optimize_endpoint: local six_month_returns
    chosen,          \* optimize_endpoint: local chosen
    returns_df,      \* optimize_endpoint: shape of local returns_df
    weights,         \* optimize_endpoint: local weights, in 1/WeightScale
    aligned,         \* optimize_endpoint: local aligned
    results,         \* optimize_endpoint: local results
    stages,          \* history: the stages of the request that have begun
    opt_response,    \* optimize_endpoint: the response returned
    cum_returns,     \* max_drawdown: argument cum_returns
    drawdown         \* max_drawdown: the returned value

holdingsVars == <<holdings, current_prices, sector_map, class_map, analytics>>
mappingVars ==
    <<mapping_file, heap, _sector_map, _class_map, versions, reload_pc, reader,
      row_i, reloads>>
uploadVars == <<upload_pc, data, sector_ref, class_ref, response>>
optimizeVars ==
    <<payload, today, nifty_csv, tickers, recent_prices, six_month_returns,
      chosen, returns_df, weights, aligned, results, stages, opt_response>>
drawdownVars == <<cum_returns, drawdown>>
vars == <<pc, holdingsVars, mappingVars, uploadVars, optimizeVars, drawdownVars>>

(***************************************************************************)
(* Bounds of the model.                                                    *)
(***************************************************************************)
\* longest holdings list with freely chosen tickers, prices and quantities
MaxHoldings == 2
\* longest holdings list in the ranking scenario (more than TopN holdings)
MaxRanked == 6
\* longest holdings list of an upload request
MaxUploaded == 2
\* most rows of the frame yf.download returns
MaxRows == 2
\* most reload requests
MaxReloads == 1
\* most dated rows of the 6-month price frame
MaxPriceRows == 3
\* most rows of returns_df
MaxReturnRows == 2
\* most rows of the aligned frame
MaxAligned == 3
\* weights are multiples of 1 / WeightScale
WeightScale == 2
\* longest cumulative series given to max_drawdown
MaxSeries == 4

(***************************************************************************)
(* Generic helpers.                                                        *)
(***************************************************************************)
Min(a, b) == IF a < b THEN a ELSE b
Max(a, b) == IF a > b THEN a ELSE b
Abs(a) == IF a < 0 THEN -a ELSE a

RECURSIVE Gcd(_, _)
Gcd(a, b) == IF b = 0 THEN a ELSE Gcd(b, a % b)

\* the quotient n / d (d # 0) as a fraction in lowest terms, d > 0
Frac(n, d) ==
    LET s == IF d < 0 THEN -1 ELSE 1
        g == Gcd(Abs(n), Abs(d))
    IN  <<(s * n) \div g, (s * d) \div g>>

FracAdd(a, b) == Frac(a[1] * b[2] + b[1] * a[2], a[2] * b[2])
FracLess(a, b) == a[1] * b[2] < b[1] * a[2]
FracZero == <<0, 1>>
FracOne == <<1, 1>>

\* dict.get(key, default)
Get(d, key, default) == IF key \in DOMAIN d THEN d[key] ELSE default

\* all dicts with keys among K and values in V
Dicts(K, V) == UNION {[S -> V] : S \in SUBSET K}

\* all lists over S of length at most n
SeqUpTo(S, n) == UNION {[1..k -> S] : k \in 0..n}

RECURSIVE SumSeq(_)
SumSeq(s) == IF s = <<>> THEN 0 ELSE Head(s) + SumSeq(Tail(s))

Reverse(s) == [i \in 1..Len(s) |-> s[Len(s) + 1 - i]]

(***************************************************************************)
(* calculate_holdings_performance                                          *)
(***************************************************************************)
\* how many entries top_gainers / top_losers are cut from
TopN == 5

\* the guard without its entry_price test
IncludedAnyEntry(h, prices) == Get(prices, h.ticker, 0) > 0

\* the guard of the per-holding loop
Included(h, prices) ==
    Get(prices, h.ticker, 0) > 0 /\ h.entry_price > 0

\* the portfolio_data entry of one included holding
StockEntry(h, prices, smap, cmap) ==
    LET current_price == Get(prices, h.ticker, 0)
        invested_amount == h.entry_price * h.quantity
        current_value == current_price * h.quantity
        gain_loss == current_value - invested_amount
    IN  [ticker |-> h.ticker,
         entry_price |-> h.entry_price,
         current_price |-> current_price,
         quantity |-> h.quantity,
         invested_amount |-> invested_amount,
         current_value |-> current_value,
         gain_loss |-> gain_loss,
         gain_loss_pct |-> IF invested_amount > 0
                           THEN Frac(gain_loss * 100, invested_amount)
                           ELSE FracZero,
         sector |-> Get(smap, h.ticker, "Other"),
         asset_class |-> Get(cmap, h.ticker, "Other")]

\* the per-holding loop: portfolio_data in input order
RECURSIVE PortfolioData(_, _, _, _)
PortfolioData(hs, prices, smap, cmap) ==
    IF hs = <<>> THEN <<>>
    ELSE IF Included(Head(hs), prices)
         THEN <<StockEntry(Head(hs), prices, smap, cmap)>>
                  \o PortfolioData(Tail(hs), prices, smap, cmap)
         ELSE PortfolioData(Tail(hs), prices, smap, cmap)

\* list.sort(key=gain_loss_pct, reverse=True): stable, descending
RECURSIVE InsertDesc(_, _)
InsertDesc(sorted, e) ==
    IF sorted = <<>> THEN <<e>>
    ELSE IF FracLess(Head(sorted).gain_loss_pct, e.gain_loss_pct)
         THEN <<e>> \o sorted
         ELSE <<Head(sorted)>> \o InsertDesc(Tail(sorted), e)

RECURSIVE SortDesc(_)
SortDesc(s) ==
    IF s = <<>> THEN <<>>
    ELSE InsertDesc(SortDesc(SubSeq(s, 1, Len(s) - 1)), s[Len(s)])

\* (ticker, gain_loss_pct / 100)
TopPair(stock) ==
    <<stock.ticker, Frac(stock.gain_loss_pct[1], stock.gain_loss_pct[2] * 100)>>

IsGain(stock) == stock.gain_loss_pct[1] > 0
IsLoss(stock) == stock.gain_loss_pct[1] < 0

\* portfolio_data[:5] filtered to the gains
TopGainers(sorted) ==
    LET head == SubSeq(sorted, 1, Min(TopN, Len(sorted)))
        kept == SelectSeq(head, IsGain)
    IN  [i \in 1..Len(kept) |-> TopPair(kept[i])]

\* top_losers without top_losers.reverse()
TopLosersUnreversed(sorted) ==
    LET tail == SubSeq(sorted, Max(1, Len(sorted) - TopN + 1), Len(sorted))
        kept == SelectSeq(tail, IsLoss)
    IN  [i \in 1..Len(kept) |-> TopPair(kept[i])]

\* portfolio_data[-5:] filtered to the losses, then reversed
TopLosers(sorted) ==
    LET tail == SubSeq(sorted, Max(1, Len(sorted) - TopN + 1), Len(sorted))
        kept == SelectSeq(tail, IsLoss)
    IN  Reverse([i \in 1..Len(kept) |-> TopPair(kept[i])])

\* the exposure loop with "=" in place of "+="
ExposureOverwrite(stocks, total_current_value, field) ==
    IF ~(total_current_value > 0) THEN <<>>
    ELSE [k \in {stocks[i][field] : i \in 1..Len(stocks)} |->
            LET last == CHOOSE i \in 1..Len(stocks) :
                           /\ stocks[i][field] = k
                           /\ \A j \in 1..Len(stocks) : stocks[j][field] = k => j <= i
            IN  Frac(stocks[last].current_value, total_current_value)]

\* the exposure loop: a defaultdict(float) keyed by stock[field]
RECURSIVE Exposure(_, _, _)
Exposure(stocks, total_current_value, field) ==
    IF stocks = <<>> \/ ~(total_current_value > 0) THEN <<>>
    ELSE LET rest == Exposure(SubSeq(stocks, 1, Len(stocks) - 1),
                              total_current_value, field)
             stock == stocks[Len(stocks)]
             key == stock[field]
             weight == Frac(stock.current_value, total_current_value)
         IN  [k \in DOMAIN rest \cup {key} |->
                IF k = key THEN FracAdd(Get(rest, key, FracZero), weight)
                ELSE rest[k]]

\* total_return_pct without the factor 100
TotalReturnPctUnscaled(total_gain_loss, total_invested) ==
    IF total_invested > 0 THEN Frac(total_gain_loss, total_invested) ELSE FracZero

\* total_return_pct
TotalReturnPct(total_gain_loss, total_invested) ==
    IF total_invested > 0 THEN Frac(total_gain_loss * 100, total_invested)
    ELSE FracZero

calculate_holdings_performance(hs, prices, smap, cmap) ==
    LET portfolio_data == PortfolioData(hs, prices, smap, cmap)
        total_invested ==
            SumSeq([i \in 1..Len(portfolio_data) |-> portfolio_data[i].invested_amount])
        total_current_value ==
            SumSeq([i \in 1..Len(portfolio_data) |-> portfolio_data[i].current_value])
        total_gain_loss == total_current_value - total_invested
        sorted == SortDesc(portfolio_data)
    IN  [portfolio_data |-> sorted,
         total_invested |-> total_invested,
         total_current_value |-> total_current_value,
         total_gain_loss |-> total_gain_loss,
         total_return_pct |-> TotalReturnPct(total_gain_loss, total_invested),
         top_gainers |-> TopGainers(sorted),
         top_losers |-> TopLosers(sorted),
         sector_exposure |-> Exposure(sorted, total_current_value, "sector"),
         asset_allocation |-> Exposure(sorted, total_current_value, "asset_class")]

\* the value of analytics before the call has returned
NoAnalytics ==
    [portfolio_data |-> <<>>, total_invested |-> 0, total_current_value |-> 0,
     total_gain_loss |-> 0, total_return_pct |-> FracZero, top_gainers |-> <<>>,
     top_losers |-> <<>>, sector_exposure |-> <<>>, asset_allocation |-> <<>>]

(***************************************************************************)
(* load_mapping_file: the rows of a mapping file, read in order into the   *)
(* two dicts.  A row is the list of its (stripped) cells.                  *)
(***************************************************************************)
\* dict[key] = value
Put(d, key, value) ==
    [k \in DOMAIN d \cup {key} |-> IF k = key THEN value ELSE d[k]]

IsHeader(row) == \E i \in 1..Len(row) : row[i] \in {"ticker", "symbol"}

\* index of the first data row
FirstRow(rows) ==
    IF rows # <<>> /\ IsHeader(rows[1]) THEN 2 ELSE 1

RowSkipped(row) == Len(row) < 1
RowTicker(row) == row[1]
RowSector(row) == IF Len(row) > 1 /\ row[2] # "" THEN row[2] ELSE "Other"
RowClass(row) == IF Len(row) > 2 /\ row[3] # "" THEN row[3] ELSE "Other"

\* the dict (RowSector or RowClass, by cell) after rows from..Len(rows)
RECURSIVE LoadRows(_, _, _, _)
LoadRows(d, rows, from, cell) ==
    IF from > Len(rows) THEN d
    ELSE LET row == rows[from]
         IN  IF RowSkipped(row) THEN LoadRows(d, rows, from + 1, cell)
             ELSE LoadRows(Put(d, RowTicker(row),
                               IF cell = "sector" THEN RowSector(row)
                               ELSE RowClass(row)),
                           rows, from + 1, cell)

\* list(csv.reader(f)), or no rows when os.path.exists(path) is false
FileRows(file) == IF file.exists THEN file.rows ELSE <<>>

\* _sector_map and _class_map after a complete load of the file
LoadedSectorMap(file) ==
    LoadRows(<<>>, FileRows(file), FirstRow(FileRows(file)), "sector")
LoadedClassMap(file) ==
    LoadRows(<<>>, FileRows(file), FirstRow(FileRows(file)), "class")

\* the mapping files of the model: none, empty, with a header, with a
\* blank line and short rows
NoFile == [exists |-> FALSE, rows |-> <<>>]
MappingFiles ==
    {NoFile} \cup
    {[exists |-> TRUE, rows |-> r] : r \in
        { <<>>,
          << <<"ticker", "sector", "class">>, <<"A", "IT", "Equity">> >>,
          << <<"A", "IT", "Equity">>, <<"B", "IT", "Debt">> >>,
          << <<"A", "Other">>, <<>>, <<"B", "Bank", "">> >> }}

(***************************************************************************)
(* Inputs of calculate_holdings_performance.                               *)
(***************************************************************************)
Tickers == {"A", "B"}
EntryPrices == {0, 50, 100}
Quantities == {-10, 10, 20}
Prices == {0, 45, 110}

Holding == [ticker : Tickers, entry_price : EntryPrices, quantity : Quantities]

\* the ranking scenario: fixed prices, holdings that gain (120% or 10%),
\* lose (10% or 55%) or stay flat
RankedPrices ==
    [t \in {"A", "B", "C"} |-> CASE t = "A" -> 110 [] t = "B" -> 45 [] t = "C" -> 100]
RankedHolding ==
    [ticker : {"A", "B"}, entry_price : {50, 100}, quantity : {10}]
        \cup {[ticker |-> "C", entry_price |-> 100, quantity |-> 10]}

\* the variables of the mapping and of the upload request, at rest
MappingAtRest ==
    /\ mapping_file = NoFile
    /\ heap = << <<>>, <<>> >>
    /\ _sector_map = 1
    /\ _class_map = 2
    /\ versions = {}
    /\ reload_pc = "idle"
    /\ reader = <<>>
    /\ row_i = 0
    /\ reloads = 0

NoData == [raised |-> FALSE, rows |-> 0, has_adj |-> FALSE, adj |-> <<>>]
NoResponse == [status |-> 0, body |-> "", unmapped |-> {}, loaded |-> 0]

UploadAtRest ==
    /\ upload_pc = "idle"
    /\ data = NoData
    /\ sector_ref = 0
    /\ class_ref = 0
    /\ response = NoResponse

\* payload.get(...) defaults
NoPayload ==
    [sectors |-> <<>>, asset_classes |-> <<>>, num_stocks |-> 10,
     objective |-> "sharpe"]
NoFrame == [rows |-> 0, cols |-> <<>>]
NoReturns == [columns |-> <<>>, rows |-> 0]
NoOptResponse == [status |-> 0, error |-> ""]
Epoch == <<1970, 1, 1>>

OptimizeAtRest ==
    /\ payload = NoPayload
    /\ today = Epoch
    /\ nifty_csv = FALSE
    /\ tickers = <<>>
    /\ recent_prices = NoFrame
    /\ six_month_returns = <<>>
    /\ chosen = <<>>
    /\ returns_df = NoReturns
    /\ weights = <<>>
    /\ aligned = <<>>
    /\ results = <<>>
    /\ stages = {}
    /\ opt_response = NoOptResponse

DrawdownAtRest ==
    /\ cum_returns = <<>>
    /\ drawdown = <<>>

\* any short list of holdings, any price dict, any mapping file
Init ==
    /\ pc = "call"
    /\ analytics = NoAnalytics
    /\ \E k \in 0..MaxHoldings : holdings \in [1..k -> Holding]
    /\ \E S \in SUBSET Tickers : current_prices \in [S -> Prices]
    /\ \E f \in MappingFiles \ {NoFile} :
          /\ sector_map = LoadedSectorMap(f)
          /\ class_map = LoadedClassMap(f)
    /\ MappingAtRest /\ UploadAtRest /\ OptimizeAtRest /\ DrawdownAtRest

\* longer lists of holdings at fixed prices
InitRanked ==
    /\ pc = "call"
    /\ analytics = NoAnalytics
    /\ \E k \in 0..MaxRanked : holdings \in [1..k -> RankedHolding]
    /\ current_prices = RankedPrices
    /\ sector_map = [t \in {"A"} |-> "IT"]
    /\ class_map = [t \in {"A"} |-> "Equity"]
    /\ MappingAtRest /\ UploadAtRest /\ OptimizeAtRest /\ DrawdownAtRest

Calculate ==
    /\ pc = "call"
    /\ analytics' = calculate_holdings_performance(holdings, current_prices,
                                                   sector_map, class_map)
    /\ pc' = "returned"
    /\ UNCHANGED <<holdings, current_prices, sector_map, class_map>>
    /\ UNCHANGED <<mappingVars, uploadVars, optimizeVars, drawdownVars>>

Next == Calculate

Spec == Init /\ [][Next]_vars

NextRanked == Calculate

SpecRanked == InitRanked /\ [][NextRanked]_vars

(***************************************************************************)
(* get_current_prices.  yf.download is outside the program: it raises or   *)
(* returns a frame of data.rows dated rows whose 'Adj Close' part, when    *)
(* there is one, has a column of cells (a price or NaN) for some of the    *)
(* tickers.                                                                *)
(***************************************************************************)
NaN == -1
Cells == {NaN, 45, 110}

\* set([t for t in tickers if t.strip()])
UniqueTickers(names) == {names[i] : i \in 1..Len(names)} \ {""}

\* series.dropna()
RECURSIVE DropNa(_)
DropNa(col) ==
    IF col = <<>> THEN <<>>
    ELSE IF Head(col) = NaN THEN DropNa(Tail(col))
         ELSE <<Head(col)>> \o DropNa(Tail(col))

\* series.dropna().iloc[-1] if not series.dropna().empty else 0.0
LatestOrZero(col) ==
    LET valid == DropNa(col) IN IF valid = <<>> THEN 0 ELSE valid[Len(valid)]

\* what yf.download(unique_tickers, ...) can do
Downloads(unique_tickers) ==
    {[raised |-> TRUE, rows |-> 0, has_adj |-> FALSE, adj |-> <<>>]}
    \cup {[raised |-> FALSE, rows |-> n, has_adj |-> FALSE, adj |-> <<>>] :
            n \in 0..1}
    \cup {[raised |-> FALSE, rows |-> n, has_adj |-> TRUE, adj |-> d] :
            n \in 1..MaxRows,
            d \in {x \in Dicts(unique_tickers, SeqUpTo(Cells, MaxRows)) :
                     Cardinality(unique_tickers) = 1 => DOMAIN x = unique_tickers}}

\* the frames of Downloads whose columns have data.rows cells
WellShaped(d) == \A t \in DOMAIN d.adj : Len(d.adj[t]) = d.rows

get_current_prices(names, download) ==
    LET unique_tickers == UniqueTickers(names)
    IN  IF unique_tickers = {} THEN <<>>
        ELSE IF download.raised THEN <<>>
        ELSE IF download.rows = 0 THEN <<>>
        ELSE IF ~download.has_adj THEN <<>>
        ELSE IF Cardinality(unique_tickers) = 1
             THEN [t \in unique_tickers |-> LatestOrZero(download.adj[t])]
             ELSE [t \in unique_tickers |->
                     IF t \in DOMAIN download.adj
                     THEN LatestOrZero(download.adj[t])
                     ELSE 0]

(***************************************************************************)
(* reload_mapping -> load_mapping_file, statement by statement: another    *)
(* request's thread can run between any two of them.                       *)
(***************************************************************************)
\* a reload request arrives
ReloadStart ==
    /\ reload_pc = "idle"
    /\ reloads < MaxReloads
    /\ reloads' = reloads + 1
    /\ reload_pc' = "reset_sector"
    /\ versions' = versions \cup
          {<<LoadedSectorMap(mapping_file), LoadedClassMap(mapping_file)>>}
    /\ UNCHANGED <<mapping_file, heap, _sector_map, _class_map, reader, row_i>>
    /\ UNCHANGED <<pc, holdingsVars, uploadVars, optimizeVars, drawdownVars>>

\* _sector_map = {}
ResetSectorMap ==
    /\ reload_pc = "reset_sector"
    /\ heap' = Append(heap, <<>>)
    /\ _sector_map' = Len(heap) + 1
    /\ reload_pc' = "reset_class"
    /\ UNCHANGED <<mapping_file, _class_map, versions, reader, row_i, reloads>>
    /\ UNCHANGED <<pc, holdingsVars, uploadVars, optimizeVars, drawdownVars>>

\* _class_map = {}
ResetClassMap ==
    /\ reload_pc = "reset_class"
    /\ heap' = Append(heap, <<>>)
    /\ _class_map' = Len(heap) + 1
    /\ reload_pc' = "open"
    /\ UNCHANGED <<mapping_file, _sector_map, versions, reader, row_i, reloads>>
    /\ UNCHANGED <<pc, holdingsVars, uploadVars, optimizeVars, drawdownVars>>

\* if not os.path.exists(path): return; else read the rows and skip a header
OpenFile ==
    /\ reload_pc = "open"
    /\ IF ~mapping_file.exists
       THEN /\ reload_pc' = "return"
            /\ UNCHANGED <<reader, row_i>>
       ELSE /\ reader' = mapping_file.rows
            /\ row_i' = FirstRow(mapping_file.rows)
            /\ reload_pc' = "row"
    /\ UNCHANGED <<mapping_file, heap, _sector_map, _class_map, versions, reloads>>
    /\ UNCHANGED <<pc, holdingsVars, uploadVars, optimizeVars, drawdownVars>>

\* one pass of the loop up to _sector_map[ticker] = sector
RowSectorStep ==
    /\ reload_pc = "row"
    /\ IF row_i > Len(reader)
       THEN /\ reload_pc' = "return"
            /\ UNCHANGED <<heap, row_i>>
       ELSE IF RowSkipped(reader[row_i])
       THEN /\ row_i' = row_i + 1
            /\ UNCHANGED <<heap, reload_pc>>
       ELSE /\ heap' = [heap EXCEPT ![_sector_map] =
                          Put(@, RowTicker(reader[row_i]), RowSector(reader[row_i]))]
            /\ reload_pc' = "row_class"
            /\ UNCHANGED row_i
    /\ UNCHANGED <<mapping_file, _sector_map, _class_map, versions, reader, reloads>>
    /\ UNCHANGED <<pc, holdingsVars, uploadVars, optimizeVars, drawdownVars>>

\* _class_map[ticker] = cls
RowClassStep ==
    /\ reload_pc = "row_class"
    /\ heap' = [heap EXCEPT ![_class_map] =
                  Put(@, RowTicker(reader[row_i]), RowClass(reader[row_i]))]
    /\ row_i' = row_i + 1
    /\ reload_pc' = "row"
    /\ UNCHANGED <<mapping_file, _sector_map, _class_map, versions, reader, reloads>>
    /\ UNCHANGED <<pc, holdingsVars, uploadVars, optimizeVars, drawdownVars>>

\* return jsonify({'status': 'ok', 'loaded': len(_sector_map)})
ReloadReturn ==
    /\ reload_pc = "return"
    /\ reload_pc' = "idle"
    /\ UNCHANGED <<mapping_file, heap, _sector_map, _class_map, versions, reader,
                   row_i, reloads>>
    /\ UNCHANGED <<pc, holdingsVars, uploadVars, optimizeVars, drawdownVars>>

(***************************************************************************)
(* upload.  The request's holdings are what parse_current_holdings_csv     *)
(* made of the uploaded text.  calculate_holdings_performance runs as one  *)
(* step on the dicts the two local references point to.                    *)
(***************************************************************************)
UploadedHolding ==
    {[ticker |-> "A", entry_price |-> 100, quantity |-> 10],
     [ticker |-> "B", entry_price |-> 50, quantity |-> 20],
     [ticker |-> "", entry_price |-> 100, quantity |-> 10]}

TickersOf(hs) == [i \in 1..Len(hs) |-> hs[i].ticker]

Respond(status, body) ==
    [status |-> status, body |-> body, unmapped |-> {}, loaded |-> 0]

\* 'file' not in request.files
UploadNoFile ==
    /\ upload_pc = "idle"
    /\ response' = Respond(400, "No holdings file part")
    /\ upload_pc' = "done"
    /\ UNCHANGED <<data, sector_ref, class_ref>>
    /\ UNCHANGED <<pc, holdingsVars, mappingVars, optimizeVars, drawdownVars>>

\* holdings = parse_current_holdings_csv(holdings_text)
UploadParse ==
    /\ upload_pc = "idle"
    /\ holdings' \in SeqUpTo(UploadedHolding, MaxUploaded)
    /\ IF holdings' = <<>>
       THEN /\ response' = Respond(400, "No valid holdings found in CSV")
            /\ upload_pc' = "done"
       ELSE /\ upload_pc' = "fetch"
            /\ UNCHANGED response
    /\ UNCHANGED <<current_prices, sector_map, class_map, analytics>>
    /\ UNCHANGED <<data, sector_ref, class_ref>>
    /\ UNCHANGED <<pc, mappingVars, optimizeVars, drawdownVars>>

\* current_prices = get_current_prices(tickers); if not current_prices: 500
UploadFetch ==
    /\ upload_pc = "fetch"
    /\ \E d \in Downloads(UniqueTickers(TickersOf(holdings))) :
          /\ WellShaped(d)
          /\ data' = d
          /\ current_prices' = get_current_prices(TickersOf(holdings), d)
    /\ IF DOMAIN current_prices' = {}
       THEN /\ response' =
                Respond(500, "Unable to fetch current prices from Yahoo Finance")
            /\ upload_pc' = "done"
       ELSE /\ upload_pc' = "read_sector"
            /\ UNCHANGED response
    /\ UNCHANGED <<holdings, sector_map, class_map, analytics>>
    /\ UNCHANGED <<sector_ref, class_ref>>
    /\ UNCHANGED <<pc, mappingVars, optimizeVars, drawdownVars>>

\* sector_map = _sector_map
UploadReadSector ==
    /\ upload_pc = "read_sector"
    /\ sector_ref' = _sector_map
    /\ upload_pc' = "read_class"
    /\ UNCHANGED <<data, class_ref, response>>
    /\ UNCHANGED <<pc, holdingsVars, mappingVars, optimizeVars, drawdownVars>>

\* class_map = _class_map
UploadReadClass ==
    /\ upload_pc = "read_class"
    /\ class_ref' = _class_map
    /\ upload_pc' = "calculate"
    /\ UNCHANGED <<data, sector_ref, response>>
    /\ UNCHANGED <<pc, holdingsVars, mappingVars, optimizeVars, drawdownVars>>

\* analytics = calculate_holdings_performance(holdings, current_prices,
\*                                            sector_map, class_map)
UploadCalculate ==
    /\ upload_pc = "calculate"
    /\ sector_map' = heap[sector_ref]
    /\ class_map' = heap[class_ref]
    /\ analytics' = calculate_holdings_performance(holdings, current_prices,
                                                   heap[sector_ref], heap[class_ref])
    /\ upload_pc' = "respond"
    /\ UNCHANGED <<holdings, current_prices>>
    /\ UNCHANGED <<data, sector_ref, class_ref, response>>
    /\ UNCHANGED <<pc, mappingVars, optimizeVars, drawdownVars>>

\* unmapped = [t for t in all_tickers if t not in sector_map]; jsonify
UploadRespond ==
    /\ upload_pc = "respond"
    /\ response' =
          [status |-> 200, body |-> "analytics",
           unmapped |-> {holdings[i].ticker : i \in 1..Len(holdings)}
                            \ DOMAIN heap[sector_ref],
           loaded |-> 0]
    /\ upload_pc' = "done"
    /\ UNCHANGED <<data, sector_ref, class_ref>>
    /\ UNCHANGED <<pc, holdingsVars, mappingVars, optimizeVars, drawdownVars>>

\* the module was loaded (load_mapping_file at line 49 ran to its end on the
\* file of that time); the file may have been edited since
InitUpload ==
    /\ pc = "serving"
    /\ holdings = <<>>
    /\ current_prices = <<>>
    /\ sector_map = <<>>
    /\ class_map = <<>>
    /\ analytics = NoAnalytics
    /\ mapping_file \in MappingFiles
    /\ \E startup \in MappingFiles :
          /\ heap = <<LoadedSectorMap(startup), LoadedClassMap(startup)>>
          /\ versions = {<<LoadedSectorMap(startup), LoadedClassMap(startup)>>}
    /\ _sector_map = 1
    /\ _class_map = 2
    /\ reload_pc = "idle"
    /\ reader = <<>>
    /\ row_i = 0
    /\ reloads = 0
    /\ UploadAtRest /\ OptimizeAtRest /\ DrawdownAtRest

NextUpload ==
    \/ ReloadStart
    \/ ResetSectorMap
    \/ ResetClassMap
    \/ OpenFile
    \/ RowSectorStep
    \/ RowClassStep
    \/ ReloadReturn
    \/ UploadNoFile
    \/ UploadParse
    \/ UploadFetch
    \/ UploadReadSector
    \/ UploadReadClass
    \/ UploadCalculate
    \/ UploadRespond

SpecUpload == InitUpload /\ [][NextUpload]_vars

(***************************************************************************)
(* optimize_endpoint.  Prices are positive integers, NaN is a missing      *)
(* price.  A frame is a number of dated rows and one column of cells per   *)
(* ticker.  Of returns_df only the shape is kept: its values reach the     *)
(* solver and the index values, which come from outside (scipy, the        *)
(* benchmark download).  A weight w stands for w / WeightScale.            *)
(***************************************************************************)
\* load_nifty_mapping: the rows of the universe file
Universe ==
    <<[Ticker |-> "X.NS", Symbol |-> "X", Sector |-> "IT", AssetClass |-> "Equity"],
      [Ticker |-> "Y.NS", Symbol |-> "Y", Sector |-> "IT", AssetClass |-> "Equity"],
      [Ticker |-> "Z.NS", Symbol |-> "Z", Sector |-> "Bank", AssetClass |-> "Equity"]>>

SeqSet(s) == {s[i] : i \in 1..Len(s)}

\* df["Ticker"].tolist()
TickerList(rows) == [i \in 1..Len(rows) |-> rows[i].Ticker]

\* lines 384-394: the filters, and all tickers when nothing is left
FilteredTickers(sectors, asset_classes) ==
    LET by_sector ==
            IF sectors # <<>>
            THEN SelectSeq(Universe, LAMBDA r : r.Sector \in SeqSet(sectors))
            ELSE Universe
        filtered ==
            IF asset_classes # <<>>
            THEN SelectSeq(by_sector,
                           LAMBDA r : r.AssetClass \in SeqSet(asset_classes))
            ELSE by_sector
    IN  IF TickerList(filtered) = <<>> THEN TickerList(Universe)
        ELSE TickerList(filtered)

\* the frames with one of the column sets, one of the row counts and cells
\* from the given set
Frames(colsets, rowcounts, cells) ==
    UNION {UNION {{[rows |-> n, cols |-> d] : d \in [S -> [1..n -> cells]]} :
                    S \in colsets} : n \in rowcounts}

\* the elements of a set of integers in ascending order
RECURSIVE Ascending(_)
Ascending(S) ==
    IF S = {} THEN <<>>
    ELSE LET least == CHOOSE x \in S : \A y \in S : x <= y
         IN  <<least>> \o Ascending(S \ {least})

\* frame.dropna(how="all")
DropAllNaRows(f) ==
    LET keep == Ascending({i \in 1..f.rows :
                              \E t \in DOMAIN f.cols : f.cols[t][i] # NaN})
    IN  [rows |-> Len(keep),
         cols |-> [t \in DOMAIN f.cols |->
                      [i \in 1..Len(keep) |-> f.cols[t][keep[i]]]]]

\* (recent_prices.iloc[-1] / recent_prices.iloc[0] - 1).dropna()
SixMonthReturns(f) ==
    [t \in {c \in DOMAIN f.cols : f.cols[c][1] # NaN /\ f.cols[c][f.rows] # NaN}
       |-> Frac(f.cols[t][f.rows] - f.cols[t][1], f.cols[t][1])]

\* sort_values(ascending=False).index: the sort is not stable, equal
\* returns come out in any order
SortValuesDesc(d) ==
    {s \in [1..Cardinality(DOMAIN d) -> DOMAIN d] :
        /\ \A i, j \in DOMAIN s : i # j => s[i] # s[j]
        /\ \A i \in DOMAIN s : i < Len(s) => ~FracLess(d[s[i]], d[s[i + 1]])}

\* series.head(n)
HeadN(s, n) ==
    IF n >= 0 THEN SubSeq(s, 1, Min(n, Len(s)))
    ELSE SubSeq(s, 1, Max(Len(s) + n, 0))

Reject(status, error) == [status |-> status, error |-> error]

\* an exception no handler of optimize_endpoint catches
Unhandled == Reject(500, "Internal Server Error")

SupportedObjectives == {"sharpe", "vol", "mdd"}

\* whether the objective is NaN at every w: the covariance of fewer than 2
\* rows is NaN, the minimum of no drawdown is NaN; neg_sharpe is 0.0 then
ObjectiveIsNaN(returns, objective) ==
    \/ objective = "vol" /\ returns.rows < 2
    \/ objective = "mdd" /\ returns.rows = 0

\* scipy.optimize.minimize under bounds (0, 1) and sum(w) = 1: a result that
\* reports success is feasible; one that does not carries the iterate the
\* solver stopped at, within the bounds, or NaN when the objective is NaN
Minimize(n, nan_objective) ==
    {[success |-> TRUE, x |-> x] :
        x \in {y \in [1..n -> 0..WeightScale] :
                  ~nan_objective /\ SumSeq(y) = WeightScale}}
    \cup {[success |-> FALSE, x |-> x] : x \in [1..n -> 0..WeightScale]}
    \cup {[success |-> FALSE, x |-> x] :
            x \in {y \in {[i \in 1..n |-> NaN]} : nan_objective}}

\* the ways a call can end: ValueError, or the dict zip(columns, result.x)
optimize_portfolio_weights(returns, objective) ==
    IF objective \in SupportedObjectives
    THEN {[raised |-> FALSE, solved |-> TRUE,
           weights |-> [t \in SeqSet(returns.columns) |->
                           r.x[CHOOSE i \in 1..Len(returns.columns) :
                                  returns.columns[i] = t]]] :
            r \in Minimize(Len(returns.columns),
                           ObjectiveIsNaN(returns, objective))}
    ELSE {[raised |-> TRUE, solved |-> FALSE, weights |-> <<>>]}

\* dates: <<year, month, day>>
DateLE(a, b) ==
    \/ a[1] < b[1]
    \/ a[1] = b[1] /\ a[2] < b[2]
    \/ a[1] = b[1] /\ a[2] = b[2] /\ a[3] <= b[3]

IsLeap(y) == (y % 4 = 0 /\ y % 100 # 0) \/ y % 400 = 0

DaysInMonth(y, mo) ==
    IF mo = 2 THEN (IF IsLeap(y) THEN 29 ELSE 28)
    ELSE IF mo \in {4, 6, 9, 11} THEN 30 ELSE 31

\* date - pd.DateOffset(months=k): the day is cut to the month's length
MinusMonths(date, k) ==
    LET idx == date[1] * 12 + (date[2] - 1) - k
        y == idx \div 12
        mo == (idx % 12) + 1
    IN  <<y, mo, Min(date[3], DaysInMonth(y, mo))>>

\* date - pd.DateOffset(years=k)
MinusYears(date, k) == MinusMonths(date, 12 * k)

Horizons == {"1M", "3M", "6M", "YTD", "1Y"}

\* start of get_period, lines 443-448
WindowStart(h, date) ==
    CASE h = "YTD" -> <<date[1], 1, 1>>
      [] h = "1M" -> MinusMonths(date, 1)
      [] h = "3M" -> MinusMonths(date, 3)
      [] h = "6M" -> MinusMonths(date, 6)
      [] h = "1Y" -> MinusYears(date, 1)

None == <<>>

\* aligned[name]: the dated values of one column
Column(frame, name) ==
    [i \in 1..Len(frame) |-> [date |-> frame[i].date, value |-> frame[i][name]]]

\* get_period with len(sub) < 1 as its test
get_periodOneObservation(series, h, date) ==
    LET start == WindowStart(h, date)
        sub == SelectSeq(series, LAMBDA o : DateLE(start, o.date))
    IN  IF Len(sub) < 1 THEN None
        ELSE Frac(sub[Len(sub)].value - sub[1].value, sub[1].value)

get_period(series, h, date) ==
    LET start == WindowStart(h, date)
        sub == SelectSeq(series, LAMBDA o : DateLE(start, o.date))
    IN  IF Len(sub) < 2 THEN None
        ELSE Frac(sub[Len(sub)].value - sub[1].value, sub[1].value)

\* aligned[aligned.index >= start]
ChartRows(frame, h, date) ==
    SelectSeq(frame, LAMBDA o : DateLE(WindowStart(h, date), o.date))

\* the day before a date
DayBefore(date) ==
    IF date[3] > 1 THEN <<date[1], date[2], date[3] - 1>>
    ELSE LET prev == MinusMonths(<<date[1], date[2], 1>>, 1)
         IN  <<prev[1], prev[2], DaysInMonth(prev[1], prev[2])>>

\* the dates of the one-year download: from today - 1 year up to, not
\* including, today; the model keeps the window starts, the days before
\* them and yesterday
TradingDates(date) ==
    {d \in {WindowStart(h, date) : h \in Horizons}
             \cup {DayBefore(WindowStart(h, date)) : h \in Horizons}
             \cup {DayBefore(date)} :
        DateLE(MinusYears(date, 1), d) /\ d # date /\ DateLE(d, date)}

IndexValues == {100, 110}

\* the dates of a set in ascending order
RECURSIVE AscendingDates(_)
AscendingDates(S) ==
    IF S = {} THEN <<>>
    ELSE LET least == CHOOSE x \in S : \A y \in S : DateLE(x, y)
         IN  <<least>> \o AscendingDates(S \ {least})

\* the frame of the dates of index with the values p and q
AlignedFrame(index, p, q) ==
    [i \in 1..Len(index) |->
        [date |-> index[i], Portfolio |-> p[i], Nifty |-> q[i]]]

\* the frames of at most n rows with ascending dates
AlignedFrames(dates, values, n) ==
    UNION {{AlignedFrame(AscendingDates(S), p, q) :
              p \in [1..Cardinality(S) -> values],
              q \in [1..Cardinality(S) -> values]} :
             S \in {T \in SUBSET dates : Cardinality(T) <= n}}

NumStocks == {1, 2, 10}
Objectives == SupportedObjectives \cup {"cvar"}
Todays == {<<2024, 3, 31>>, <<2025, 1, 15>>}
PriceCells == {NaN, 10, 20}

\* lines 372-394: the payload, the universe file, the filters
OptimizeRequest ==
    /\ pc = "request"
    /\ IF ~nifty_csv
       THEN /\ opt_response' = Reject(400, "Universe mapping file missing")
            /\ pc' = "done"
            /\ UNCHANGED tickers
       ELSE /\ tickers' = FilteredTickers(payload.sectors, payload.asset_classes)
            /\ pc' = "download"
            /\ UNCHANGED opt_response
    /\ UNCHANGED <<payload, today, nifty_csv, recent_prices, six_month_returns,
                   chosen, returns_df, weights, aligned, results, stages>>
    /\ UNCHANGED <<holdingsVars, mappingVars, uploadVars, drawdownVars>>

\* line 398: download_adjclose(tickers, lookback_start, today)
DownloadRecent ==
    /\ pc = "download"
    /\ stages' = stages \cup {"ranking"}
    /\ \/ /\ opt_response' = Unhandled
          /\ pc' = "done"
          /\ UNCHANGED recent_prices
       \/ /\ recent_prices' \in Frames({SeqSet(tickers)}, 1..2, {NaN, 10})
          /\ pc' = "rank"
          /\ UNCHANGED opt_response
    /\ UNCHANGED <<payload, today, nifty_csv, tickers, six_month_returns,
                   chosen, returns_df, weights, aligned, results>>
    /\ UNCHANGED <<holdingsVars, mappingVars, uploadVars, drawdownVars>>

\* lines 398-408: dropna(how="all"), the returns, the sort, head(num_stocks)
RankStage ==
    /\ pc = "rank"
    /\ LET f == DropAllNaRows(recent_prices)
       IN  IF f.rows < 2
           THEN /\ opt_response' =
                      Reject(400, "Not enough 6-month data to rank stocks.")
                /\ pc' = "done"
                /\ UNCHANGED <<six_month_returns, chosen>>
           ELSE /\ six_month_returns' = SixMonthReturns(f)
                /\ \E order \in SortValuesDesc(SixMonthReturns(f)) :
                      chosen' = HeadN(order, payload.num_stocks)
                /\ IF Len(chosen') < 2
                   THEN /\ opt_response' =
                              Reject(400, "Fewer than 2 valid stocks after ranking.")
                        /\ pc' = "done"
                   ELSE /\ pc' = "history"
                        /\ UNCHANGED opt_response
    /\ UNCHANGED <<payload, today, nifty_csv, tickers, recent_prices, returns_df,
                   weights, aligned, results, stages>>
    /\ UNCHANGED <<holdingsVars, mappingVars, uploadVars, drawdownVars>>

\* lines 411-416: the one-year download and returns_df
PriceHistory ==
    /\ pc = "history"
    /\ stages' = stages \cup {"history"}
    /\ \/ /\ opt_response' = Unhandled
          /\ pc' = "done"
          /\ UNCHANGED returns_df
       \/ /\ \E S \in SUBSET SeqSet(chosen) \ {{}}, r \in 0..MaxReturnRows :
                returns_df' = [columns |-> SelectSeq(chosen, LAMBDA t : t \in S),
                               rows |-> r]
          /\ IF Len(returns_df'.columns) < 2
             THEN /\ opt_response' =
                        Reject(400, "Not enough valid return series for optimization.")
                  /\ pc' = "done"
             ELSE /\ pc' = "solve"
                  /\ UNCHANGED opt_response
    /\ UNCHANGED <<payload, today, nifty_csv, tickers, recent_prices,
                   six_month_returns, chosen, weights, aligned, results>>
    /\ UNCHANGED <<holdingsVars, mappingVars, uploadVars, drawdownVars>>

\* line 418: optimize_portfolio_weights(returns_df, objective=objective)
Solve ==
    /\ pc = "solve"
    /\ \E out \in optimize_portfolio_weights(returns_df, payload.objective) :
          IF out.raised
          THEN /\ opt_response' = Unhandled
               /\ pc' = "done"
               /\ UNCHANGED <<weights, stages>>
          ELSE /\ weights' = out.weights
               /\ stages' = stages \cup {"solver"}
               /\ pc' = "benchmark"
               /\ UNCHANGED opt_response
    /\ UNCHANGED <<payload, today, nifty_csv, tickers, recent_prices,
                   six_month_returns, chosen, returns_df, aligned, results>>
    /\ UNCHANGED <<holdingsVars, mappingVars, uploadVars, drawdownVars>>

\* lines 421-428: the benchmark download and the aligned frame; NaN weights
\* leave no row of port_returns
Benchmark ==
    /\ pc = "benchmark"
    /\ stages' = stages \cup {"benchmark"}
    /\ \/ /\ opt_response' = Unhandled
          /\ pc' = "done"
          /\ UNCHANGED aligned
       \/ /\ aligned' \in
                IF \E t \in DOMAIN weights : weights[t] = NaN THEN {<<>>}
                ELSE AlignedFrames({DayBefore(today), DayBefore(DayBefore(today))},
                                   {100}, Min(returns_df.rows, MaxAligned))
          /\ pc' = "horizons"
          /\ UNCHANGED opt_response
    /\ UNCHANGED <<payload, today, nifty_csv, tickers, recent_prices,
                   six_month_returns, chosen, returns_df, weights, results>>
    /\ UNCHANGED <<holdingsVars, mappingVars, uploadVars, drawdownVars>>

\* lines 430-502: the horizon results and the response
HorizonsRespond ==
    /\ pc = "horizons"
    /\ results' =
          [h \in Horizons |->
              [Portfolio |-> get_period(Column(aligned, "Portfolio"), h, today),
               Nifty |-> get_period(Column(aligned, "Nifty"), h, today)]]
    /\ opt_response' =
          [status |-> 200, error |-> "", selected_stocks |-> chosen,
           weights |-> weights, benchmark_returns |-> results',
           chart_data |-> [h \in Horizons |-> ChartRows(aligned, h, today)]]
    /\ pc' = "done"
    /\ UNCHANGED <<payload, today, nifty_csv, tickers, recent_prices,
                   six_month_returns, chosen, returns_df, weights, aligned, stages>>
    /\ UNCHANGED <<holdingsVars, mappingVars, uploadVars, drawdownVars>>

\* the variables of the other requests, at rest
OthersAtRest ==
    /\ holdings = <<>>
    /\ current_prices = <<>>
    /\ sector_map = <<>>
    /\ class_map = <<>>
    /\ analytics = NoAnalytics
    /\ MappingAtRest /\ UploadAtRest /\ DrawdownAtRest

\* an optimize request arrives
InitOptimize ==
    /\ pc = "request"
    /\ payload \in [sectors : {<<>>, <<"IT">>, <<"Auto">>},
                    asset_classes : {<<>>, <<"Equity">>},
                    num_stocks : NumStocks, objective : Objectives]
    /\ today \in Todays
    /\ nifty_csv \in BOOLEAN
    /\ tickers = <<>>
    /\ recent_prices = NoFrame
    /\ six_month_returns = <<>>
    /\ chosen = <<>>
    /\ returns_df = NoReturns
    /\ weights = <<>>
    /\ aligned = <<>>
    /\ results = <<>>
    /\ stages = {}
    /\ opt_response = NoOptResponse
    /\ OthersAtRest

NextOptimize ==
    \/ OptimizeRequest
    \/ DownloadRecent
    \/ RankStage
    \/ PriceHistory
    \/ Solve
    \/ Benchmark
    \/ HorizonsRespond

SpecOptimize == InitOptimize /\ [][NextOptimize]_vars

\* the request at line 400: any frame of the 6-month download for the three
\* tickers of the universe
InitScreen ==
    /\ pc = "rank"
    /\ payload \in [sectors : {<<>>}, asset_classes : {<<>>},
                    num_stocks : NumStocks, objective : {"sharpe"}]
    /\ today = <<2024, 3, 31>>
    /\ nifty_csv = TRUE
    /\ tickers = TickerList(Universe)
    /\ \E S \in SUBSET SeqSet(TickerList(Universe)) \ {{}}, n \in 0..MaxPriceRows :
          \E d \in [S -> [1..n -> PriceCells]] :
             recent_prices = [rows |-> n, cols |-> d]
    /\ six_month_returns = <<>>
    /\ chosen = <<>>
    /\ returns_df = NoReturns
    /\ weights = <<>>
    /\ aligned = <<>>
    /\ results = <<>>
    /\ stages = {"ranking"}
    /\ opt_response = NoOptResponse
    /\ OthersAtRest

NextScreen == RankStage

SpecScreen == InitScreen /\ [][NextScreen]_vars

\* the frame and the ranking of a request that has come to line 430
ScreenedFrame ==
    [rows |-> 2,
     cols |-> [t \in SeqSet(TickerList(Universe)) |->
                  IF t = "X.NS" THEN <<10, 20>>
                  ELSE IF t = "Y.NS" THEN <<10, 10>> ELSE <<NaN, NaN>>]]

\* the request at line 430: any aligned frame of the year before today
InitHorizon ==
    /\ pc = "horizons"
    /\ payload = NoPayload
    /\ today \in Todays
    /\ nifty_csv = TRUE
    /\ tickers = TickerList(Universe)
    /\ recent_prices = ScreenedFrame
    /\ six_month_returns = SixMonthReturns(ScreenedFrame)
    /\ chosen = <<"X.NS", "Y.NS">>
    /\ returns_df = [columns |-> <<"X.NS", "Y.NS">>, rows |-> MaxAligned]
    /\ weights = [t \in {"X.NS", "Y.NS"} |-> IF t = "X.NS" THEN WeightScale ELSE 0]
    /\ \E S \in SUBSET TradingDates(today) :
          /\ Cardinality(S) <= MaxAligned
          /\ \E p, q \in [1..Cardinality(S) -> IndexValues] :
                aligned = AlignedFrame(AscendingDates(S), p, q)
    /\ results = <<>>
    /\ stages = {"ranking", "history", "solver", "benchmark"}
    /\ opt_response = NoOptResponse
    /\ OthersAtRest

NextHorizon == HorizonsRespond

SpecHorizon == InitHorizon /\ [][NextHorizon]_vars

(***************************************************************************)
(* max_drawdown, on a series of positive integers.                         *)
(***************************************************************************)
\* cum_returns.cummax()
RECURSIVE CumMax(_)
CumMax(s) ==
    IF Len(s) <= 1 THEN s
    ELSE LET before == CumMax(SubSeq(s, 1, Len(s) - 1))
         IN  Append(before, Max(before[Len(s) - 1], s[Len(s)]))

\* the series of the largest value in place of the running largest
GlobalMax(s) ==
    [i \in 1..Len(s) |-> CHOOSE x \in SeqSet(s) : \A y \in SeqSet(s) : y <= x]

\* (cum_returns - roll_max) / roll_max
Drawdowns(s, roll_max) ==
    [i \in 1..Len(s) |-> Frac(s[i] - roll_max[i], roll_max[i])]

\* series.min(); of no value it is NaN, written <<>>
RECURSIVE FracMin(_)
FracMin(s) ==
    IF s = <<>> THEN <<>>
    ELSE IF Len(s) = 1 THEN s[1]
    ELSE LET rest == FracMin(Tail(s))
         IN  IF FracLess(rest, Head(s)) THEN rest ELSE Head(s)

\* max_drawdown with the largest value of the whole series as roll_max
max_drawdownFromGlobalMax(s) == FracMin(Drawdowns(s, GlobalMax(s)))

max_drawdown(s) == FracMin(Drawdowns(s, CumMax(s)))

CumValues == {50, 80, 100, 120}

\* a call of max_drawdown on any short non-empty series of positive values
InitDrawdown ==
    /\ pc = "call"
    /\ \E k \in 1..MaxSeries : cum_returns \in [1..k -> CumValues]
    /\ drawdown = <<>>
    /\ holdings = <<>>
    /\ current_prices = <<>>
    /\ sector_map = <<>>
    /\ class_map = <<>>
    /\ analytics = NoAnalytics
    /\ MappingAtRest /\ UploadAtRest /\ OptimizeAtRest

MaxDrawdown ==
    /\ pc = "call"
    /\ cum_returns # <<>>
    /\ drawdown' = max_drawdown(cum_returns)
    /\ pc' = "returned"
    /\ UNCHANGED cum_returns
    /\ UNCHANGED <<holdingsVars, mappingVars, uploadVars, optimizeVars>>

NextDrawdown == MaxDrawdown

SpecDrawdown == InitDrawdown /\ [][NextDrawdown]_vars

(***************************************************************************)
(* The claims about calculate_holdings_performance, each stated from the   *)
(* call's arguments and compared with the dict the call returned.          *)
(***************************************************************************)
RECURSIVE SumOver(_, _)
SumOver(f, S) ==
    IF S = {} THEN 0
    ELSE LET x == CHOOSE x \in S : TRUE IN f[x] + SumOver(f, S \ {x})

RECURSIVE FracSum(_, _)
FracSum(d, keys) ==
    IF keys = {} THEN FracZero
    ELSE LET k == CHOOSE k \in keys : TRUE
         IN  FracAdd(d[k], FracSum(d, keys \ {k}))

Count(s, Test(_)) == Cardinality({i \in 1..Len(s) : Test(s[i])})

\* the holdings the claims call excluded: entry_price <= 0, or no current
\* price (missing from the price dict, or <= 0)
IsExcluded(h) ==
    \/ h.entry_price <= 0
    \/ h.ticker \notin DOMAIN current_prices
    \/ current_prices[h.ticker] <= 0

Kept == {i \in 1..Len(holdings) : ~IsExcluded(holdings[i])}
InvestedOf(i) == holdings[i].entry_price * holdings[i].quantity
ValueOf(i) == current_prices[holdings[i].ticker] * holdings[i].quantity
Invested == [i \in Kept |-> InvestedOf(i)]
Value == [i \in Kept |-> ValueOf(i)]
SectorOf(i) == Get(sector_map, holdings[i].ticker, "Other")
ClassOf(i) == Get(class_map, holdings[i].ticker, "Other")
\* gain_loss_pct / 100 of a kept holding
Ratio(i) ==
    IF InvestedOf(i) > 0 THEN Frac(ValueOf(i) - InvestedOf(i), InvestedOf(i))
    ELSE FracZero

\* C1: a holding with entry_price <= 0 or without a current price adds
\* nothing to total_invested, total_current_value, sector_exposure or
\* asset_allocation and has no entry in the breakdown; the call returns.
C1_ExcludedContributeNothing ==
    /\ pc \in {"call", "returned"}
    /\ pc = "returned" =>
        /\ DOMAIN analytics = DOMAIN NoAnalytics
        /\ analytics.total_invested = SumOver(Invested, Kept)
        /\ analytics.total_current_value = SumOver(Value, Kept)
        /\ \A h \in {holdings[i] : i \in 1..Len(holdings)} :
              LET Same(x) == /\ x.ticker = h.ticker
                             /\ x.entry_price = h.entry_price
                             /\ x.quantity = h.quantity
              IN  Count(analytics.portfolio_data, Same)
                    = IF IsExcluded(h) THEN 0
                      ELSE Cardinality({i \in Kept : holdings[i] = h})
        /\ Len(analytics.portfolio_data) = Cardinality(Kept)
        /\ DOMAIN analytics.sector_exposure \subseteq {SectorOf(i) : i \in Kept}
        /\ DOMAIN analytics.asset_allocation \subseteq {ClassOf(i) : i \in Kept}
        /\ \A k \in DOMAIN analytics.sector_exposure :
              analytics.sector_exposure[k]
                = Frac(SumOver(Value, {i \in Kept : SectorOf(i) = k}),
                       SumOver(Value, Kept))
        /\ \A k \in DOMAIN analytics.asset_allocation :
              analytics.asset_allocation[k]
                = Frac(SumOver(Value, {i \in Kept : ClassOf(i) = k}),
                       SumOver(Value, Kept))

\* C1 witness: the call returned for two holdings of one ticker, one kept
\* and one with entry_price 0, and a third ticker's price is missing
C1_Witness ==
    /\ pc = "returned"
    /\ Len(holdings) = 2
    /\ holdings[1].ticker = holdings[2].ticker
    /\ holdings[1].entry_price = 0
    /\ Kept = {2}
    /\ DOMAIN current_prices # Tickers
    /\ analytics.total_current_value > 0

\* C2: when total_current_value > 0 and a holding is included, the values
\* of sector_exposure sum to 1 and so do the values of asset_allocation.
C2_ExposuresSumToOne ==
    (pc = "returned" /\ analytics.total_current_value > 0 /\ Kept # {}) =>
        /\ FracSum(analytics.sector_exposure, DOMAIN analytics.sector_exposure)
              = FracOne
        /\ FracSum(analytics.asset_allocation, DOMAIN analytics.asset_allocation)
              = FracOne

\* C2 witness: two included holdings, one of a mapped ticker and one of an
\* unmapped ticker that falls under "Other", each map with two keys
C2_Witness ==
    /\ pc = "returned"
    /\ analytics.total_current_value > 0
    /\ Kept = {1, 2}
    /\ "B" \notin DOMAIN sector_map
    /\ holdings[1].ticker = "A" /\ holdings[2].ticker = "B"
    /\ DOMAIN analytics.sector_exposure = {"IT", "Other"}
    /\ DOMAIN analytics.asset_allocation = {"Equity", "Other"}
    /\ analytics.sector_exposure["Other"] # FracOne

\* C3: top_gainers: at most 5, all gains, best first, the largest gains;
\* top_losers: at most 5, all losses, worst first, the largest losses;
\* nothing is in both lists.
C3_TopGainersLosers ==
    pc = "returned" =>
        LET G == analytics.top_gainers
            L == analytics.top_losers
            kept == Kept
            R == [i \in kept |-> Ratio(i)]
            ratios == {R[i] : i \in kept} \cup {FracZero}
        IN  /\ Len(G) <= 5 /\ Len(L) <= 5
            /\ \A i \in 1..Len(G) : FracLess(FracZero, G[i][2])
            /\ \A i \in 1..Len(L) : FracLess(L[i][2], FracZero)
            /\ \A i, j \in 1..Len(G) : i < j => ~FracLess(G[i][2], G[j][2])
            /\ \A i, j \in 1..Len(L) : i < j => ~FracLess(L[j][2], L[i][2])
            \* each entry is the (ticker, ratio) of an included holding
            /\ \A p \in {G[i] : i \in 1..Len(G)} \cup {L[i] : i \in 1..Len(L)} :
                  LET IsP(x) == x = p
                  IN  Count(G, IsP) + Count(L, IsP)
                        <= Cardinality({i \in kept : <<holdings[i].ticker, R[i]>> = p})
            \* the lists hold the extremes: above (below) any level they hold
            \* as many entries as there are holdings, up to 5
            /\ \A v \in ratios :
                  LET Above(x) == FracLess(v, x[2])
                      Below(x) == FracLess(x[2], v)
                  IN  /\ ~FracLess(v, FracZero) =>
                          Count(G, Above)
                            = Min(5, Cardinality({i \in kept : FracLess(v, R[i])}))
                      /\ ~FracLess(FracZero, v) =>
                          Count(L, Below)
                            = Min(5, Cardinality({i \in kept : FracLess(R[i], v)}))
            /\ {G[i] : i \in 1..Len(G)} \cap {L[i] : i \in 1..Len(L)} = {}

\* C3 witness: six holdings gained, by different amounts, and top_gainers
\* holds five of them
C3_Witness ==
    /\ pc = "returned"
    /\ Cardinality({i \in Kept : FracLess(FracZero, Ratio(i))}) = 6
    /\ Cardinality({Ratio(i) : i \in Kept}) = 2
    /\ Len(analytics.top_gainers) = 5
    /\ analytics.top_gainers[1] # analytics.top_gainers[5]

\* the part of C4 that both readings of it share
TotalsAreSums ==
    /\ analytics.total_invested = SumOver(Invested, Kept)
    /\ analytics.total_current_value = SumOver(Value, Kept)
    /\ analytics.total_gain_loss
          = analytics.total_current_value - analytics.total_invested
    /\ analytics.total_gain_loss
          = SumSeq([i \in 1..Len(analytics.portfolio_data) |->
                        analytics.portfolio_data[i].gain_loss])

\* C4 as claimed: the totals are the sums over the included holdings and
\* total_return_pct = total_gain_loss / total_invested * 100, being 0 when
\* total_invested is 0.
C4_Original ==
    pc = "returned" =>
        /\ TotalsAreSums
        /\ analytics.total_return_pct
              = IF analytics.total_invested = 0 THEN FracZero
                ELSE Frac(analytics.total_gain_loss * 100, analytics.total_invested)

\* C4 as amended: ... being 0 when total_invested is 0 or negative.
C4_TotalsAmended ==
    pc = "returned" =>
        /\ TotalsAreSums
        /\ analytics.total_return_pct
              = IF analytics.total_invested <= 0 THEN FracZero
                ELSE Frac(analytics.total_gain_loss * 100, analytics.total_invested)

\* C4 witness: the example A(100, 10), B(50, 20) at prices A = 110, B = 45
\* returned the totals 2000, 2000, 0, 0
C4_Witness ==
    /\ pc = "returned"
    /\ holdings = <<[ticker |-> "A", entry_price |-> 100, quantity |-> 10],
                    [ticker |-> "B", entry_price |-> 50, quantity |-> 20]>>
    /\ current_prices = [t \in {"A", "B"} |-> IF t = "A" THEN 110 ELSE 45]
    /\ analytics.total_invested = 2000
    /\ analytics.total_current_value = 2000
    /\ analytics.total_gain_loss = 0
    /\ analytics.total_return_pct = FracZero

(***************************************************************************)
(* The claims about the upload request and the mapping reload.             *)
(***************************************************************************)
\* yf.download gave no price for any requested ticker
NoUsablePrice ==
    \/ data.raised
    \/ data.rows = 0
    \/ ~data.has_adj
    \/ \A t \in UniqueTickers(TickersOf(holdings)) :
          t \notin DOMAIN data.adj \/ DropNa(data.adj[t]) = <<>>

\* C6: an upload whose price fetch gave no usable price for any ticker ends
\* with the "Unable to fetch current prices" failure, never with analytics
\* computed from zero prices.
C6_NoPricesIsFailure ==
    (upload_pc \notin {"idle", "fetch"} /\ holdings # <<>> /\ NoUsablePrice) =>
        /\ upload_pc = "done"
        /\ response = Respond(500, "Unable to fetch current prices from Yahoo Finance")

\* C10: whatever a reload is doing, the maps an upload request reads are a
\* complete map of one load: the sector and class dicts handed to
\* calculate_holdings_performance, and the sector dict read for unmapped.
C10_ReadsSeeCompleteMap ==
    /\ (upload_pc = "respond" \/ (upload_pc = "done" /\ response.status = 200)) =>
          <<sector_map, class_map>> \in versions
    /\ (upload_pc = "done" /\ response.status = 200) =>
          \E v \in versions :
             response.unmapped
               = {holdings[i].ticker : i \in 1..Len(holdings)} \ DOMAIN v[1]

(***************************************************************************)
(* The claims about optimize_endpoint.                                     *)
(***************************************************************************)
\* the non-missing prices of a candidate ticker in the 6-month window
Observations(t) ==
    IF t \in DOMAIN recent_prices.cols THEN DropNa(recent_prices.cols[t])
    ELSE <<>>

Rankable == {t \in SeqSet(tickers) : Len(Observations(t)) >= 2}

\* last price / first price - 1
TrailingReturn(t) ==
    LET o == Observations(t) IN Frac(o[Len(o)] - o[1], o[1])

RankingDone ==
    \/ pc = "history"
    \/ pc = "done" /\ opt_response.error = "Fewer than 2 valid stocks after ranking."

\* C5: once the screening step has ranked, the ranked tickers are exactly
\* the candidates with at least 2 non-missing prices in the window, each
\* with the return last price / first price - 1, and the chosen list is the
\* first num_stocks of them in descending order of that return (all of
\* them when there are fewer); a request with a rankable ticker is ranked.
C5_ScreeningRanksEveryTicker ==
    /\ (pc # "rank" /\ Rankable # {}) => RankingDone
    /\ RankingDone =>
          /\ DOMAIN six_month_returns = Rankable
          /\ \A t \in Rankable : six_month_returns[t] = TrailingReturn(t)
          /\ Len(chosen) = Min(payload.num_stocks, Cardinality(Rankable))
          /\ \A i, j \in 1..Len(chosen) : i < j =>
                /\ chosen[i] # chosen[j]
                /\ ~FracLess(TrailingReturn(chosen[i]), TrailingReturn(chosen[j]))
          /\ \A i \in 1..Len(chosen) : \A t \in Rankable \ SeqSet(chosen) :
                ~FracLess(TrailingReturn(chosen[i]), TrailingReturn(t))

\* C7: a request whose objective is not sharpe, vol or mdd runs no stage
\* (no ranking, no price history, no solver), and when it ends with the
\* universe file present it ends as the rejection "Unsupported objective".
C7_UnsupportedRejectedFirst ==
    payload.objective \notin {"sharpe", "vol", "mdd"} =>
        /\ stages = {}
        /\ (pc = "done" /\ nifty_csv) =>
              /\ opt_response.status \in 400..499
              /\ opt_response.error = "Unsupported objective"

\* the weights sum to 1 and each lies in [0, 1]
WeightsFeasible(w) ==
    /\ \A t \in DOMAIN w : 0 <= w[t] /\ w[t] <= WeightScale
    /\ SumOver(w, DOMAIN w) = WeightScale

\* C9: for a supported objective and a returns matrix of at least 2
\* tickers, the weights optimize_portfolio_weights returned each lie in
\* [0, 1] and sum to 1.
C9_WeightsFeasible ==
    ("solver" \in stages /\ Len(returns_df.columns) >= 2
        /\ payload.objective \in {"sharpe", "vol", "mdd"}) =>
        /\ DOMAIN weights = SeqSet(returns_df.columns)
        /\ WeightsFeasible(weights)

\* the rows of aligned dated on or after the horizon's window start
InWindow(h) ==
    {i \in 1..Len(aligned) : DateLE(WindowStart(h, today), aligned[i].date)}

\* last / first - 1 over the rows of the window, none below 2 rows
Expected(h, name) ==
    LET rows == InWindow(h)
        first == CHOOSE i \in rows : \A j \in rows : i <= j
        last == CHOOSE i \in rows : \A j \in rows : j <= i
    IN  IF Cardinality(rows) < 2 THEN None
        ELSE Frac(aligned[last][name] - aligned[first][name], aligned[first][name])

\* C8: a request that came to the horizon step ends with a success response
\* in which, for each horizon and each of the two series, the result is none
\* exactly when fewer than 2 aligned rows are dated on or after the window
\* start and is last / first - 1 over those rows otherwise; the two results
\* of a horizon are both none or both numbers.
C8_HorizonResults ==
    pc = "done" =>
        /\ opt_response.status = 200
        /\ opt_response.benchmark_returns = results
        /\ \A h \in Horizons :
              /\ \A name \in {"Portfolio", "Nifty"} :
                    /\ results[h][name] = Expected(h, name)
                    /\ (results[h][name] = None) <=> (Cardinality(InWindow(h)) < 2)
              /\ (results[h].Portfolio = None) <=> (results[h].Nifty = None)

\* a finished request with a horizon of no row, one of exactly one row and
\* one whose two series moved differently
C8_Witness ==
    /\ pc = "done"
    /\ opt_response.status = 200
    /\ \E h \in Horizons : Cardinality(InWindow(h)) = 0
    /\ \E h \in Horizons : Cardinality(InWindow(h)) = 1 /\ results[h].Nifty = None
    /\ \E h \in Horizons :
          /\ Cardinality(InWindow(h)) = 3
          /\ results[h].Portfolio = <<1, 10>>
          /\ results[h].Nifty = <<-1, 11>>

(***************************************************************************)
(* The claim about max_drawdown.                                           *)
(***************************************************************************)
\* the largest value of the series up to index t
PeakUpTo(t) ==
    CHOOSE x \in {cum_returns[i] : i \in 1..t} :
        \A i \in 1..t : cum_returns[i] <= x

\* (C_t - max_{s<=t} C_s) / max_{s<=t} C_s
DrawdownAt(t) == Frac(cum_returns[t] - PeakUpTo(t), PeakUpTo(t))

NeverFalls ==
    \A i, j \in 1..Len(cum_returns) : i < j => cum_returns[i] <= cum_returns[j]

\* the series rises to index p, falls to index v and rises from there on
PeakThenTrough(p, v) ==
    /\ p < v
    /\ cum_returns[v] < cum_returns[p]
    /\ \A i \in 1..Len(cum_returns) : i < Len(cum_returns) =>
          IF i < p \/ i >= v THEN cum_returns[i] <= cum_returns[i + 1]
          ELSE cum_returns[i] >= cum_returns[i + 1]

\* C11: on a non-empty series of positive values max_drawdown returns the
\* least over t of (C_t - max_{s<=t} C_s) / max_{s<=t} C_s; it is never
\* above 0, is 0 exactly when no value is below an earlier one, and for a
\* series of one peak P followed by one trough V it is (V - P) / P.
C11_MaxDrawdown ==
    pc = "returned" =>
        /\ \E t \in 1..Len(cum_returns) : drawdown = DrawdownAt(t)
        /\ \A t \in 1..Len(cum_returns) : ~FracLess(DrawdownAt(t), drawdown)
        /\ ~FracLess(FracZero, drawdown)
        /\ (drawdown = FracZero) <=> NeverFalls
        /\ \A p, v \in 1..Len(cum_returns) :
              PeakThenTrough(p, v) =>
                  drawdown = Frac(cum_returns[v] - cum_returns[p], cum_returns[p])

\* a returned call on a series that falls from its peak 100 to 50 and then
\* rises above the peak
C11_Witness ==
    /\ pc = "returned"
    /\ cum_returns = <<80, 100, 50, 120>>
    /\ PeakThenTrough(2, 3)
    /\ drawdown = <<-1, 2>>
====
